---- MODULE Spec2Model ----
(***************************************************************************)
(* A model of the Galadriel CSS webpack integration client:                *)
(*   - the loader (transform entry point, live and precompiled resolution) *)
(*   - the plugin  (apply, beforeRun install+build, done cleanup).         *)
(*                                                                         *)
(* Text is a sequence of lexical units.  The three namespace markers and   *)
(* the bulk-stylesheet directive are single units; every other unit is one *)
(* character.  The units "a" and "b" stand for the identifier class        *)
(* [a-zA-Z0-9_-]; " ", "c", "x", "y" and the backslash are characters      *)
(* outside it.  No unit is "$", so String.prototype.replace never sees a   *)
(* replacement pattern.                                                    *)
(***************************************************************************)
EXTENDS Integers, Sequences, FiniteSets, TLC

VARIABLES
    \* ---- loader module state (one transform call)
    IS_GALADRIEL_BUILD,     \* process.env.NODE_ENV === "production"
    GALADRIEL_BUILD_DATA,   \* the parsed artifact (production), else null
    source,                 \* the loader's argument: [isString, val]
    lpc,                    \* "start" | "waiting_css" | "waiting" | "done"
    requests,               \* the axios.get calls issued, in issue order
    cb,                     \* what the bundler callback has received
    \* ---- plugin module state (one process)
    nodeEnv,                \* process.env.NODE_ENV
    host,                   \* <<os.platform(), os.arch(), ldd probe>>
    hasRunGaladrielBuild,
    hasRemovedGaladrielDir,
    beforeRunTaps,          \* per compiler: handleBeforeRun taps
    doneTaps,               \* per compiler: cleanupAfterBuild taps
    phase,                  \* per compiler: "idle" | "beforeRun" | "compiling"
    hpc,                    \* per compiler: where handleBeforeRun stands
    hookResult,             \* per compiler: outcome of the last beforeRun hook
    fatal,                  \* per compiler: the last pre-build step failed
    runs,                   \* per compiler: compiler.run() calls made
    transformed,            \* per compiler: a source file went to the loader
    compilationTaps,        \* per compiler: handleNormalModuleHooks taps
    applies,                \* plugin apply() calls made
    installCount,           \* installGaladrielCss invocations
    buildCount,             \* build subprocesses spawned
    installOk,              \* some install has resolved
    buildOk,                \* some build has resolved
    doneFirings,            \* cleanupAfterBuild invocations
    rmCount,                \* rmSync calls performed
    fs,                     \* [dir, binary, artifact]: what exists on disk
    loaderModule,           \* "unloaded" | "loaded" | "failed"
    fileReads,              \* files the loader module has read, per file
    installResult,          \* per compiler: the promise of installGaladrielCss
    downloadCount,          \* axios.get calls for the binary
    buildResult,            \* per compiler: the promise of startGaladrielBuild
    buildEvents,            \* per compiler: events of the last subprocess, in order
    \* ---- one call of the platform resolver
    patch,                  \* what verifyOS returned; "unset" before the call
    \* ---- one module of a compilation, as the beforeLoaders hook sees it
    userRequest,            \* normalModule.userRequest, a sequence of characters
    loaders,                \* normalModule.loaders
    loaders0,               \* normalModule.loaders as the bundler built it
    firings,                \* processNormalModuleRequest calls on the module
    \* ---- the loader module over the modules of a process
    artifactDoc,            \* .galadrielcss/galadrielcss.json: [parses, doc]
    handed                  \* modules webpack has handed to the loader

loaderVars == <<IS_GALADRIEL_BUILD, GALADRIEL_BUILD_DATA, source, lpc, requests, cb>>

pluginVars == <<nodeEnv, host, hasRunGaladrielBuild, hasRemovedGaladrielDir,
                beforeRunTaps, doneTaps, phase, hpc, hookResult, fatal, runs,
                transformed, compilationTaps, applies, installCount, buildCount, installOk,
                buildOk, doneFirings, rmCount, fs, loaderModule, fileReads,
                installResult, downloadCount, buildResult, buildEvents>>

resolverVars == <<patch>>

chainVars == <<userRequest, loaders, loaders0, firings>>

\* what the plugin's steps and the loader's steps leave alone
artifactVars == <<artifactDoc, handed>>

outsidePlugin == <<loaderVars, resolverVars, chainVars, artifactVars>>

outsideLoader == <<pluginVars, resolverVars, chainVars, artifactVars>>

vars == <<loaderVars, pluginVars, resolverVars, chainVars, artifactVars>>

(***************************************************************************)
(* Bounds                                                                  *)
(***************************************************************************)
MaxSegs == 3

MaxRuns == 3

MaxApplies == 3

MaxFirings == 3

MaxModules == 3

(***************************************************************************)
(* Text                                                                    *)
(***************************************************************************)
Markers == {"@class", "@layout", "@module"}

IdentChars == {"a", "b"}

DIRECTIVE == <<"D">>

\* "@layout:a" is a layout token without its sub-name; followed by "::b" it is
\* the whole token "@layout:a::b", and "@class:a" followed by "::b" is a class
\* token with a sub-name
Chunks ==
    { <<"@class", ":", "a">>,
      <<"@layout", ":", "a">>,
      <<"@module", ":", "a", ":", ":", "b">>,
      <<":", ":", "b">>,
      DIRECTIVE,
      <<" ">>,
      <<"a">>,
      <<"\\">> }

RECURSIVE TextsOf(_)
TextsOf(n) ==
    IF n = 0 THEN { <<>> }
    ELSE LET prev == TextsOf(n - 1)
         IN  prev \cup { t \o c : t \in prev, c \in Chunks }

Texts == TextsOf(MaxSegs)

\* a Buffer (raw loader) is the one non-string value webpack hands a loader
NonStrings ==
    { [isString |-> FALSE, val |-> b] : b \in { <<>>, <<"@class", ":", "a">>, DIRECTIVE } }

SourceValues == { [isString |-> TRUE, val |-> t] : t \in Texts } \cup NonStrings

\* String.prototype.includes / indexOf
IndexOf(s, pat) ==
    LET hits == { i \in 1..(Len(s) - Len(pat) + 1) : SubSeq(s, i, i + Len(pat) - 1) = pat }
    IN  IF hits = {} THEN 0 ELSE CHOOSE i \in hits : \A j \in hits : i <= j

Includes(s, pat) == IndexOf(s, pat) # 0

\* String.prototype.replace(string, string): the first occurrence only
ReplaceFirst(s, pat, rep) ==
    LET i == IndexOf(s, pat)
    IN  IF i = 0 THEN s
        ELSE SubSeq(s, 1, i - 1) \o rep \o SubSeq(s, i + Len(pat), Len(s))

\* String.prototype.replaceAll("\\", "")
RECURSIVE StripBackslashes(_)
StripBackslashes(s) ==
    IF s = <<>> THEN <<>>
    ELSE IF Head(s) = "\\" THEN StripBackslashes(Tail(s))
    ELSE <<Head(s)>> \o StripBackslashes(Tail(s))

(***************************************************************************)
(* REGEX = /@(?:class|layout|module):([a-zA-Z0-9_-]+)(?:::([a-zA-Z0-9_-]+))?/g *)
(***************************************************************************)
RECURSIVE IdentRun(_, _)
IdentRun(s, i) ==
    IF i <= Len(s) /\ s[i] \in IdentChars THEN 1 + IdentRun(s, i + 1) ELSE 0

NoMatch == [found |-> FALSE, index |-> 0, len |-> 0, text |-> <<>>, p1 |-> <<>>, hasP2 |-> FALSE, p2 |-> <<>>]

\* the match of REGEX anchored at position p, greedy in both groups
MatchAt(s, p) ==
    LET n1 == IdentRun(s, p + 2)
        q  == p + 2 + n1
        n2 == IF q + 1 <= Len(s) /\ s[q] = ":" /\ s[q + 1] = ":"
              THEN IdentRun(s, q + 2) ELSE 0
        ln == 2 + n1 + (IF n2 > 0 THEN 2 + n2 ELSE 0)
    IN  IF p + 2 <= Len(s) /\ s[p] \in Markers /\ s[p + 1] = ":" /\ n1 > 0
        THEN [found |-> TRUE, index |-> p, len |-> ln, text |-> SubSeq(s, p, p + ln - 1),
              p1 |-> SubSeq(s, p + 2, q - 1), hasP2 |-> n2 > 0,
              p2 |-> IF n2 > 0 THEN SubSeq(s, q + 2, q + 1 + n2) ELSE <<>>]
        ELSE NoMatch

RECURSIVE ScanFrom(_, _)
ScanFrom(s, i) ==
    IF i > Len(s) THEN <<>>
    ELSE LET m == MatchAt(s, i)
         IN  IF m.found THEN <<m>> \o ScanFrom(s, i + m.len)
             ELSE ScanFrom(s, i + 1)

\* [...source.matchAll(REGEX)]
matchAll(s) == ScanFrom(s, 1)

StartsWith(m, marker) == m.text[1] = marker

(***************************************************************************)
(* The build artifact (GaladrielBuildType).  A field that the JSON         *)
(* document lacks is undefined: def = FALSE.                               *)
(***************************************************************************)
Undef == [def |-> FALSE, m |-> <<>>]

Def(f) == [def |-> TRUE, m |-> f]

NameA == <<"a">>

NameB == <<"b">>

EmptyMap == [k \in {} |-> <<>>]

Escaped == <<"\\", "x", "\\", "y">>

StoredValues == { <<>>, <<"x">>, Escaped }

One(k, v) == [j \in {k} |-> v]

CentralMaps == { Undef, Def(EmptyMap) } \cup { Def(One(NameA, v)) : v \in StoredValues }

NestedMaps ==
    { Undef, Def(EmptyMap), Def(One(NameA, EmptyMap)) }
        \cup { Def(One(NameA, One(NameB, v))) : v \in StoredValues }

FullTracking ==
    [def |-> TRUE, central |-> Def(One(NameA, Escaped)),
     layouts |-> Def(One(NameA, One(NameB, Escaped))),
     modules |-> Def(One(NameA, One(NameB, Escaped)))]

NoTracking == [def |-> FALSE, central |-> Undef, layouts |-> Undef, modules |-> Undef]

CssValues == { [def |-> FALSE, val |-> <<>>], [def |-> TRUE, val |-> <<>>],
               [def |-> TRUE, val |-> <<"c">>] }

FullCss == [def |-> TRUE, val |-> <<"c">>]

\* the documents the build may have written: the full one, and the full one
\* with one field changed
Artifacts ==
    { [css |-> c, trackingClasses |-> FullTracking] : c \in CssValues }
        \cup { [css |-> FullCss, trackingClasses |-> NoTracking] }
        \cup { [css |-> FullCss, trackingClasses |-> [FullTracking EXCEPT !.central = c]]
                 : c \in CentralMaps }
        \cup { [css |-> FullCss, trackingClasses |-> [FullTracking EXCEPT !.layouts = l]]
                 : l \in NestedMaps }
        \cup { [css |-> FullCss, trackingClasses |-> [FullTracking EXCEPT !.modules = l]]
                 : l \in NestedMaps }

NullData == [css |-> [def |-> FALSE, val |-> <<>>], trackingClasses |-> NoTracking]

(***************************************************************************)
(* Precompiled resolution (production)                                     *)
(***************************************************************************)
JsUndefined == [kind |-> "undefined", val |-> <<>>]

JsString(v) == [kind |-> "string", val |-> v]

JsThrow == [kind |-> "throw", val |-> <<>>]

\* obj[key] on a defined own-property map
Get(map, key) == IF key \in DOMAIN map THEN JsString(map[key]) ELSE JsUndefined

\* trackingMap?.central[p1]: reading a key of an undefined map is a TypeError
LookupCentral(trackingMap, p1) ==
    IF ~trackingMap.def THEN JsUndefined
    ELSE IF ~trackingMap.central.def THEN JsThrow
    ELSE Get(trackingMap.central.m, p1)

\* map[p1][p2], as trackingMap?.layouts[p1][p2] and trackingMap?.modules[p1][p2]
LookupNested(tmDef, map, m) ==
    IF ~tmDef THEN JsUndefined
    ELSE IF ~map.def THEN JsThrow
    ELSE IF m.p1 \notin DOMAIN map.m THEN JsThrow
    ELSE IF ~m.hasP2 THEN JsUndefined
    ELSE Get(map.m[m.p1], m.p2)

\* the value of replaceValue after the if / else-if chain
ReplaceValue(m, data) ==
    LET trackingMap == data.trackingClasses
    IN  IF StartsWith(m, "@class") THEN LookupCentral(trackingMap, m.p1)
        ELSE IF StartsWith(m, "@layout")
             THEN LookupNested(trackingMap.def, trackingMap.layouts, m)
        ELSE LookupNested(trackingMap.def, trackingMap.modules, m)

Truthy(v) == v.kind = "string" /\ v.val # <<>>

\* the replacer callback: [ok, val], ok = FALSE when it throws
Replacer(m, data) ==
    LET replaceValue == ReplaceValue(m, data)
    IN  IF replaceValue.kind = "throw" THEN [ok |-> FALSE, val |-> <<>>]
        ELSE IF Truthy(replaceValue)
             THEN [ok |-> TRUE, val |-> StripBackslashes(replaceValue.val)]
        ELSE [ok |-> TRUE, val |-> m.text]

RECURSIVE ReplaceRegex(_, _, _)
ReplaceRegex(s, i, data) ==
    IF i > Len(s) THEN [ok |-> TRUE, val |-> <<>>]
    ELSE LET m == MatchAt(s, i)
         IN  IF m.found
             THEN LET r == Replacer(m, data)
                      rest == ReplaceRegex(s, i + m.len, data)
                  IN  IF ~r.ok THEN r
                      ELSE IF ~rest.ok THEN rest
                      ELSE [ok |-> TRUE, val |-> r.val \o rest.val]
             ELSE LET rest == ReplaceRegex(s, i + 1, data)
                  IN  IF ~rest.ok THEN rest
                      ELSE [ok |-> TRUE, val |-> <<s[i]>> \o rest.val]

replaceNenyrMakrup_StripAll(src, data) ==
    LET r == ReplaceRegex(src, 1, data)
    IN  [ok |-> r.ok, val |-> StripBackslashes(r.val)]

\* source.replace(REGEX, replacer)
replaceNenyrMakrup(src, data) == ReplaceRegex(src, 1, data)

\* css ? source.replace("@galadrielcss styles;", css) : source
replaceCss(src, data) ==
    IF data.css.def /\ data.css.val # <<>>
    THEN ReplaceFirst(src, DIRECTIVE, data.css.val)
    ELSE src

(***************************************************************************)
(* Live resolution (development)                                           *)
(***************************************************************************)
FETCH_CSS == <<"/fetch-css">>

\* match.replace("::", "/").replace(":", "/"), "/none" appended for @class
retrieveUtilityClassnames(match) ==
    LET formattedMatch == ReplaceFirst(ReplaceFirst(match, <<":", ":">>, <<"/">>), <<":">>, <<"/">>)
    IN  IF match[1] = "@class"
        THEN <<"/collect-utility-class-names/">> \o formattedMatch \o <<"/", "none">>
        ELSE <<"/collect-utility-class-names/">> \o formattedMatch

\* a request in flight; "at" is its place in the order of settling, 0 so far
Pending(url) == [url |-> url, status |-> "pending", data |-> <<>>, at |-> 0]

\* how many of the requests have settled
Settled(reqs) == Cardinality({ i \in 1..Len(reqs) : reqs[i].status # "pending" })

\* matches.map(async (match) => await retrieveUtilityClassnames(match[0]))
IssueTokenRequests(matches) ==
    [i \in 1..Len(matches) |-> Pending(retrieveUtilityClassnames(matches[i].text))]

\* how axios.get rejects: an AxiosError for no connection and for a status
\* outside 2xx, and whatever value an interceptor or a cancellation rejects with
Failures == { "conn_error", "http_error", "rejected_value" }

\* what the rejected promise throws into the awaiting function: the rejection
\* that settled first
Thrown(reqs) ==
    LET first == CHOOSE i \in 1..Len(reqs) :
                     /\ reqs[i].status \in Failures
                     /\ \A j \in 1..Len(reqs) :
                            reqs[j].status \in Failures => reqs[i].at <= reqs[j].at
    IN  IF reqs[first].status = "rejected_value" THEN "value" ELSE "Error"

PromiseAll_Settled(reqs) ==
    IF \E i \in 1..Len(reqs) : reqs[i].status = "pending" THEN "pending"
    ELSE "fulfilled"

\* Promise.all: rejected with the first rejection, fulfilled when all are
PromiseAll(reqs) ==
    IF \E i \in 1..Len(reqs) : reqs[i].status \in Failures THEN "rejected"
    ELSE IF \E i \in 1..Len(reqs) : reqs[i].status = "pending" THEN "pending"
    ELSE "fulfilled"

\* transformedMatches.forEach((content, index) =>
\*     transformedSource = transformedSource.replace(matches[index][0], content))
RECURSIVE Substitute_ArrivalOrder(_, _, _, _)
Substitute_ArrivalOrder(text, matches, reqs, i) ==
    IF i > Len(matches) THEN text
    ELSE LET k == CHOOSE k \in 1..Len(reqs) : reqs[k].at = i
         IN  Substitute_ArrivalOrder(ReplaceFirst(text, matches[i].text, reqs[k].data),
                                     matches, reqs, i + 1)

RECURSIVE Substitute(_, _, _, _)
Substitute(text, matches, reqs, i) ==
    IF i > Len(matches) THEN text
    ELSE Substitute(ReplaceFirst(text, matches[i].text, reqs[i].data), matches, reqs, i + 1)

\* what the development server answers with: utility class names
Responses == { <<"x">>, <<"y">> }


(***************************************************************************)
(* The plugin's state while only the loader is observed, and the loader's  *)
(* while only the plugin is.                                               *)
(***************************************************************************)
Compilers == {"c1", "c2"}

NoValue == [isString |-> FALSE, val |-> <<>>]

NoCallback == [calls |-> 0, err |-> FALSE, value |-> NoValue, carries |-> "nothing"]

Str(t) == [isString |-> TRUE, val |-> t]

CompilersAtRest ==
    /\ hasRunGaladrielBuild = FALSE
    /\ hasRemovedGaladrielDir = FALSE
    /\ beforeRunTaps = [c \in Compilers |-> 0]
    /\ doneTaps = [c \in Compilers |-> 0]
    /\ phase = [c \in Compilers |-> "idle"]
    /\ hpc = [c \in Compilers |-> "none"]
    /\ hookResult = [c \in Compilers |-> "none"]
    /\ fatal = [c \in Compilers |-> FALSE]
    /\ runs = 0
    /\ transformed = [c \in Compilers |-> FALSE]
    /\ compilationTaps = [c \in Compilers |-> 0]
    /\ applies = 0
    /\ installCount = 0
    /\ buildCount = 0
    /\ installOk = FALSE
    /\ buildOk = FALSE
    /\ doneFirings = 0
    /\ rmCount = 0
    /\ installResult = [c \in Compilers |-> "none"]
    /\ downloadCount = 0
    /\ buildResult = [c \in Compilers |-> "none"]
    /\ buildEvents = [c \in Compilers |-> <<>>]

PluginAtRest ==
    /\ CompilersAtRest
    /\ fs = [dir |-> FALSE, binary |-> FALSE, artifact |-> FALSE]
    /\ loaderModule = "unloaded"
    /\ fileReads = [artifact |-> 0, addr |-> 0]

\* the artifact as startGaladrielBuild writes it: a document that parses
ArtifactAtRest ==
    /\ artifactDoc = [parses |-> TRUE, doc |-> [css |-> FullCss, trackingClasses |-> FullTracking]]
    /\ handed = 0

ResolverAtRest == patch = "unset"

ChainAtRest ==
    /\ userRequest = <<>>
    /\ loaders = <<>>
    /\ loaders0 = <<>>
    /\ firings = 0

LoaderAtRest ==
    /\ GALADRIEL_BUILD_DATA = NullData
    /\ source = NoValue
    /\ lpc = "start"
    /\ requests = <<>>
    /\ cb = NoCallback

(***************************************************************************)
(* The loader: galadrielWebpackLoader and its continuations                *)
(***************************************************************************)
\* callback(null, transformedContent)
CallbackContent(v) ==
    [calls |-> cb.calls + 1, err |-> FALSE, value |-> v, carries |-> "nothing"]

CallbackError_Rethrow(thrown) ==
    [calls |-> cb.calls + 1, err |-> TRUE, value |-> NoValue, carries |-> thrown]

\* error instanceof Error ? callback(error)
\*                        : callback(new Error("An unknown error occurred"))
CallbackError(thrown) ==
    [calls |-> cb.calls + 1, err |-> TRUE, value |-> NoValue,
     carries |-> IF thrown = "Error" THEN "Error" ELSE "generic Error"]

LoaderInit ==
    /\ IS_GALADRIEL_BUILD \in BOOLEAN
    /\ GALADRIEL_BUILD_DATA \in (IF IS_GALADRIEL_BUILD THEN Artifacts ELSE {NullData})
    /\ source \in SourceValues
    /\ lpc = "start"
    /\ requests = <<>>
    /\ cb = NoCallback
    /\ nodeEnv = (IF IS_GALADRIEL_BUILD THEN "production" ELSE "development")
    /\ host = <<"linux", "x64", "glibc">>
    /\ PluginAtRest
    /\ ResolverAtRest
    /\ ChainAtRest
    /\ ArtifactAtRest

\* the body of the loader up to its first await (or to its end)
galadrielWebpackLoader ==
    /\ lpc = "start"
    /\ IF ~source.isString
       THEN /\ cb' = CallbackContent(source)
            /\ lpc' = "done"
            /\ UNCHANGED requests
       ELSE IF Includes(source.val, DIRECTIVE)
       THEN IF IS_GALADRIEL_BUILD
            THEN /\ cb' = CallbackContent(Str(replaceCss(source.val, GALADRIEL_BUILD_DATA)))
                 /\ lpc' = "done"
                 /\ UNCHANGED requests
            ELSE /\ requests' = <<Pending(FETCH_CSS)>>
                 /\ lpc' = "waiting_css"
                 /\ UNCHANGED cb
       ELSE IF IS_GALADRIEL_BUILD
            THEN LET r == replaceNenyrMakrup(source.val, GALADRIEL_BUILD_DATA)
                 IN  /\ cb' = IF r.ok THEN CallbackContent(Str(r.val))
                                 ELSE CallbackError("Error")
                     /\ lpc' = "done"
                     /\ UNCHANGED requests
            ELSE LET matches == matchAll(source.val)
                 IN  /\ requests' = IssueTokenRequests(matches)
                     /\ IF Len(matches) = 0
                        THEN /\ cb' = CallbackContent(source)
                             /\ lpc' = "done"
                        ELSE /\ lpc' = "waiting"
                             /\ UNCHANGED cb
    /\ UNCHANGED <<IS_GALADRIEL_BUILD, GALADRIEL_BUILD_DATA, source>>
    /\ UNCHANGED outsideLoader

\* what follows the settling of a request, with reqs the requests after it:
\* asyncReplaceCss resumes, or Promise.all settles and asyncReplaceNenyrMakrup
\* resumes; a settlement after the callback was called has no one waiting
Resume(reqs) ==
    IF lpc = "waiting_css"
    THEN /\ cb' = IF reqs[1].status = "ok"
                  THEN CallbackContent(Str(ReplaceFirst(source.val, DIRECTIVE, reqs[1].data)))
                  ELSE CallbackError(Thrown(reqs))
         /\ lpc' = "done"
    ELSE IF lpc = "waiting" /\ PromiseAll(reqs) = "rejected"
    THEN /\ cb' = CallbackError(Thrown(reqs))
         /\ lpc' = "done"
    ELSE IF lpc = "waiting" /\ PromiseAll(reqs) = "fulfilled"
    THEN /\ cb' = CallbackContent(Str(Substitute(source.val, matchAll(source.val), reqs, 1)))
         /\ lpc' = "done"
    ELSE UNCHANGED <<cb, lpc>>

\* a request is answered with a 2xx response carrying data d
AxiosResolve(i, d) ==
    /\ i \in 1..Len(requests)
    /\ requests[i].status = "pending"
    /\ LET reqs == [requests EXCEPT ![i] = [@ EXCEPT !.status = "ok", !.data = d,
                                                     !.at = Settled(requests) + 1]]
       IN  /\ requests' = reqs
           /\ Resume(reqs)
    /\ UNCHANGED <<IS_GALADRIEL_BUILD, GALADRIEL_BUILD_DATA, source>>
    /\ UNCHANGED outsideLoader

\* a request fails: no connection, or a response outside 2xx
AxiosReject(i, f) ==
    /\ i \in 1..Len(requests)
    /\ requests[i].status = "pending"
    /\ LET reqs == [requests EXCEPT ![i] = [@ EXCEPT !.status = f,
                                                     !.at = Settled(requests) + 1]]
       IN  /\ requests' = reqs
           /\ Resume(reqs)
    /\ UNCHANGED <<IS_GALADRIEL_BUILD, GALADRIEL_BUILD_DATA, source>>
    /\ UNCHANGED outsideLoader

MaxRequests == MaxSegs

LoaderNext ==
    \/ galadrielWebpackLoader
    \/ \E i \in 1..MaxRequests, d \in Responses : AxiosResolve(i, d)
    \/ \E i \in 1..MaxRequests, f \in Failures : AxiosReject(i, f)

LoaderSpec == LoaderInit /\ [][LoaderNext]_vars

(***************************************************************************)
(* The loader module over the modules of one production process: webpack   *)
(* requires the loader for every module it hands to it, and the top level  *)
(* of the loader module runs when Node has no evaluated copy of it         *)
(***************************************************************************)
NeedsEvaluation_Always(state) == TRUE

\* the loader entry is pushed with a path to dist/loader/index.js and no
\* "module" type, so webpack loads it with require: Node keeps a module that
\* was evaluated to its end, and drops one whose top level threw, so that the
\* next require evaluates it again
NeedsEvaluation(state) == state # "loaded"

NoReads == [ok |-> TRUE, artifact |-> 0, addr |-> 0]

\* the top level of the loader module: in production readFileSync of the
\* artifact (throws when the file is missing) and JSON.parse of its content
\* (throws when it is not JSON); otherwise readFileSync of the port file
ModuleEvaluation(env, exists, parses) ==
    IF env = "production"
    THEN [ok |-> exists /\ parses, artifact |-> IF exists THEN 1 ELSE 0, addr |-> 0]
    ELSE [ok |-> TRUE, artifact |-> 0, addr |-> 1]

\* require of the loader module
LoadLoader(state, env, exists, parses) ==
    IF NeedsEvaluation(state) THEN ModuleEvaluation(env, exists, parses) ELSE NoReads

MalformedDoc == [parses |-> FALSE, doc |-> NullData]

ArtifactDocs == { [parses |-> TRUE, doc |-> a] : a \in Artifacts } \cup { MalformedDoc }

ModuleSources ==
    { Str(<<"@class", ":", "a">>),
      Str(<<"@module", ":", "a", ":", ":", "b">>),
      Str(<<"@class", ":", "a", " ">> \o DIRECTIVE),
      Str(DIRECTIVE),
      Str(<<"a">>),
      [isString |-> FALSE, val |-> <<"a">>] }

ArtifactInit ==
    /\ nodeEnv = "production"
    /\ IS_GALADRIEL_BUILD = TRUE
    /\ GALADRIEL_BUILD_DATA = NullData
    /\ source = NoValue
    /\ lpc = "idle"
    /\ requests = <<>>
    /\ cb = NoCallback
    /\ host = <<"linux", "x64", "glibc">>
    /\ CompilersAtRest
    /\ fs \in { [dir |-> e, binary |-> e, artifact |-> e] : e \in BOOLEAN }
    /\ artifactDoc \in (IF fs.artifact THEN ArtifactDocs ELSE { MalformedDoc })
    /\ handed = 0
    /\ loaderModule = "unloaded"
    /\ fileReads = [artifact |-> 0, addr |-> 0]
    /\ ResolverAtRest
    /\ ChainAtRest

\* webpack hands a module to the loader: the loader module is required, and
\* when that succeeds galadrielWebpackLoader is entered with the module's source
HandModule(src) ==
    /\ lpc \in {"idle", "done"}
    /\ handed < MaxModules
    /\ handed' = handed + 1
    /\ LET r == LoadLoader(loaderModule, nodeEnv, fs.artifact, artifactDoc.parses)
       IN  /\ loaderModule' = IF r.ok THEN "loaded" ELSE "failed"
           /\ fileReads' = [artifact |-> fileReads.artifact + r.artifact,
                            addr |-> fileReads.addr + r.addr]
           /\ GALADRIEL_BUILD_DATA' = IF r.ok /\ r.artifact > 0 THEN artifactDoc.doc
                                      ELSE GALADRIEL_BUILD_DATA
           /\ IF r.ok
              THEN /\ source' = src
                   /\ lpc' = "start"
                   /\ cb' = NoCallback
                   /\ requests' = <<>>
              ELSE UNCHANGED <<source, lpc, cb, requests>>
    /\ UNCHANGED <<IS_GALADRIEL_BUILD, nodeEnv, host, hasRunGaladrielBuild,
                   hasRemovedGaladrielDir, beforeRunTaps, doneTaps, phase, hpc, hookResult,
                   fatal, runs, transformed, compilationTaps, applies, installCount,
                   buildCount, installOk, buildOk, doneFirings, rmCount, fs, installResult,
                   downloadCount, buildResult, buildEvents, artifactDoc>>
    /\ UNCHANGED <<resolverVars, chainVars>>

ArtifactNext ==
    \/ \E src \in ModuleSources : HandModule(src)
    \/ galadrielWebpackLoader

ArtifactSpec == ArtifactInit /\ [][ArtifactNext]_vars

(***************************************************************************)
(* What the claims about the loader speak of                               *)
(***************************************************************************)
HasDirective == source.isString /\ Includes(source.val, DIRECTIVE)

Matches == matchAll(source.val)

\* the MarkupToken shape: class without a sub-name, layout and module with one
WellFormed(m) == (m.text[1] = "@class") <=> ~m.hasP2

\* the artifact holds an entry for the token
HasEntry(m, data) ==
    LET t == data.trackingClasses
        nested == IF m.text[1] = "@layout" THEN t.layouts ELSE t.modules
    IN  /\ t.def
        /\ IF m.text[1] = "@class"
           THEN t.central.def /\ m.p1 \in DOMAIN t.central.m
           ELSE /\ nested.def
                /\ m.p1 \in DOMAIN nested.m
                /\ m.hasP2
                /\ m.p2 \in DOMAIN nested.m[m.p1]

EntryOf(m, data) ==
    LET t == data.trackingClasses
    IN  IF m.text[1] = "@class" THEN t.central.m[m.p1]
        ELSE IF m.text[1] = "@layout" THEN t.layouts.m[m.p1][m.p2]
        ELSE t.modules.m[m.p1][m.p2]

\* the text s with the k-th match, at its own place, replaced by vals[k]
RECURSIVE Rebuild(_, _, _, _, _)
Rebuild(s, ms, vals, k, from) ==
    IF k > Len(ms) THEN SubSeq(s, from, Len(s))
    ELSE SubSeq(s, from, ms[k].index - 1) \o vals[k]
            \o Rebuild(s, ms, vals, k + 1, ms[k].index + ms[k].len)

\* the path the development server API gives a token
TokenPath(m) ==
    <<"/collect-utility-class-names/", m.text[1], "/">> \o m.p1 \o <<"/">>
        \o (IF m.hasP2 THEN m.p2 ELSE <<"none">>)

TokenRequests == SelectSeq(requests, LAMBDA r : r.url # FETCH_CSS)

AllAnswered == \A i \in 1..Len(requests) : requests[i].status = "ok"

SomeFailed == \E i \in 1..Len(requests) : requests[i].status \in Failures

\* C4: a text that holds the directive and tokens has the directive
\* substituted and then every token of the resulting text resolved, in both
\* modes: precompiled, the output is the token pass over the substituted
\* text; live, one token request is issued per token of the substituted text.
C4_DirectiveThenTokens ==
    (lpc = "done" /\ HasDirective /\ Len(Matches) > 0 /\ ~cb.err) =>
        IF IS_GALADRIEL_BUILD
        THEN LET r == replaceNenyrMakrup(replaceCss(source.val, GALADRIEL_BUILD_DATA),
                                         GALADRIEL_BUILD_DATA)
             IN  r.ok => cb.value = Str(r.val)
        ELSE Len(TokenRequests) =
                Len(matchAll(ReplaceFirst(source.val, DIRECTIVE, requests[1].data)))

\* C5: precompiled, a token without an entry in the artifact (name, sub-name
\* or a whole map missing) raises no error, and a text whose tokens all lack
\* an entry comes out unchanged.  Stated for texts without the directive.
C5_AbsentPassthrough ==
    (lpc = "done" /\ IS_GALADRIEL_BUILD /\ source.isString /\ ~HasDirective) =>
        /\ (\E k \in 1..Len(Matches) : ~HasEntry(Matches[k], GALADRIEL_BUILD_DATA))
              => ~cb.err
        /\ (\A k \in 1..Len(Matches) : ~HasEntry(Matches[k], GALADRIEL_BUILD_DATA))
              => cb.value = source

\* C6: precompiled, every well-formed token with an entry (the empty string
\* included) is replaced, at its place, by the stored value without its
\* backslashes.  Stated for texts without the directive.
C6_PresentUnescaped ==
    (/\ lpc = "done" /\ IS_GALADRIEL_BUILD /\ source.isString /\ ~HasDirective
     /\ \A k \in 1..Len(Matches) :
            WellFormed(Matches[k]) /\ HasEntry(Matches[k], GALADRIEL_BUILD_DATA)) =>
        /\ ~cb.err
        /\ cb.value = Str(Rebuild(source.val, Matches,
                                  [k \in 1..Len(Matches) |->
                                      StripBackslashes(EntryOf(Matches[k], GALADRIEL_BUILD_DATA))],
                                  1, 1))

\* the input holds neither the directive nor a token, or is no string
Plain == ~source.isString \/ (~Includes(source.val, DIRECTIVE) /\ Len(Matches) = 0)

\* C7: an input with neither the directive nor a token, and a non-string
\* input, is handed back unchanged in both modes, with no request issued.
C7_PlainIdentity ==
    Plain =>
        /\ requests = <<>>
        /\ lpc \in {"start", "done"}
        /\ lpc = "done" => (cb.calls = 1 /\ ~cb.err /\ cb.value = source)

C7_Witness ==
    /\ lpc = "done" /\ ~IS_GALADRIEL_BUILD /\ source.isString
    /\ Plain /\ Len(source.val) = 3 /\ Includes(source.val, <<"\\">>)
    /\ cb.value = source

\* C8: live, a text with N matches causes exactly N token requests, the
\* k-th for the k-th match, none more and none merged; once all are answered
\* the output is the text with the k-th match replaced, at its place, by the
\* k-th response.
C8_OneRequestPerMatch ==
    (~IS_GALADRIEL_BUILD /\ source.isString) =>
        /\ (lpc # "start" /\ ~HasDirective) =>
              /\ Len(requests) = Len(Matches)
              /\ \A k \in 1..Len(Matches) : requests[k].url = TokenPath(Matches[k])
        /\ (lpc = "done" /\ ~cb.err) => Len(TokenRequests) = Len(Matches)
        /\ (lpc = "done" /\ AllAnswered /\ ~HasDirective) =>
              /\ ~cb.err
              /\ cb.value = Str(Rebuild(source.val, Matches,
                                        [k \in 1..Len(Matches) |-> requests[k].data], 1, 1))

\* C9: live, a failed request (the stylesheet fetch or a token request)
\* ends the transform with an error at the callback; no text is delivered.
C9_FailureIsError ==
    (~IS_GALADRIEL_BUILD /\ SomeFailed) =>
        lpc = "done" /\ cb.calls = 1 /\ cb.err /\ cb.value = NoValue

C9_Witness ==
    /\ ~IS_GALADRIEL_BUILD /\ lpc = "done" /\ cb.err
    /\ Len(requests) = 2
    /\ requests[1].status = "ok"
    /\ requests[2].status = "http_error"
    /\ requests[2].at = 1

(***************************************************************************)
(* The plugin: WebpackClient                                               *)
(***************************************************************************)
\* architecture.includes("x64")
IncludesX64(architecture) == architecture \in {"x64"}

\* a probe that names neither musl nor libc.so, or fails, is no target
detectLinuxDistro_Strict(probe) ==
    IF probe = "musl" THEN "x86_64-unknown-linux-musl"
    ELSE IF probe = "glibc" THEN "x86_64-unknown-linux-gnu"
    ELSE "null"

\* null is "null"
detectLinuxDistro(probe) ==
    IF probe = "musl" THEN "x86_64-unknown-linux-musl"
    ELSE "x86_64-unknown-linux-gnu"

verifyOS(platform, architecture, probe) ==
    IF platform = "darwin"
    THEN (IF IncludesX64(architecture) THEN "x86_64-apple-darwin" ELSE "aarch64-apple-darwin")
    ELSE IF platform = "win32" /\ IncludesX64(architecture) THEN "x86_64-pc-windows-msvc"
    ELSE IF platform = "linux" /\ IncludesX64(architecture) THEN detectLinuxDistro(probe)
    ELSE "null"

\* the hosts the plugin runs on here: one supported, one not
Hosts == { <<"linux", "x64", "musl">>, <<"win32", "arm64", "glibc">> }

(***************************************************************************)
(* The platform resolver on its own: verifyOS applied to one host          *)
(***************************************************************************)
\* the values of os.platform() and os.arch()
Platforms == {"aix", "android", "darwin", "freebsd", "linux", "openbsd", "sunos", "win32"}

Architectures == {"arm", "arm64", "ia32", "loong64", "mips", "mipsel", "ppc", "ppc64",
                  "riscv64", "s390", "s390x", "x64"}

\* execSync("ldd $(which ls)"): output naming musl, output naming libc.so,
\* other output, or a throw; there is no ldd to answer off linux
Probes == {"musl", "glibc", "inconclusive", "failed"}

AllHosts ==
    { h \in Platforms \X Architectures \X Probes : h[1] # "linux" => h[3] = "failed" }

ResolverInit ==
    /\ host \in AllHosts
    /\ patch = "unset"
    /\ nodeEnv = "production"
    /\ IS_GALADRIEL_BUILD = TRUE
    /\ PluginAtRest
    /\ LoaderAtRest
    /\ ChainAtRest
    /\ ArtifactAtRest

\* const patch = verifyOS(os.platform(), os.arch())
ResolvePlatform ==
    /\ patch = "unset"
    /\ patch' = verifyOS(host[1], host[2], host[3])
    /\ UNCHANGED <<loaderVars, pluginVars, chainVars, artifactVars>>

ResolverNext == ResolvePlatform

ResolverSpec == ResolverInit /\ [][ResolverNext]_vars

(***************************************************************************)
(* Loader registration: processNormalModuleRequest on one module           *)
(***************************************************************************)
\* the alternatives of /\.(js|jsx|ts|tsx|css|md|mdx)$/
Extensions == { <<"j", "s">>, <<"j", "s", "x">>, <<"t", "s">>, <<"t", "s", "x">>,
                <<"c", "s", "s">>, <<"m", "d">>, <<"m", "d", "x">> }

EndsWith(s, t) ==
    /\ Len(t) <= Len(s)
    /\ SubSeq(s, Len(s) - Len(t) + 1, Len(s)) = t

\* /\.(js|jsx|ts|tsx|css|md|mdx)$/.test(filename)
shouldProcessFile(filename) ==
    \E ext \in Extensions : EndsWith(filename, <<".">> \o ext)

\* path.resolve("node_modules", "@galadrielcss", "webpack", "dist", "loader", "index.js")
webpackLoaderPath == "node_modules/@galadrielcss/webpack/dist/loader/index.js"

\* the entry processNormalModuleRequest pushes
GaladrielLoader == [loader |-> webpackLoaderPath, ident |-> "galadrielcss-webpack-loader"]

hasLoader_Never(chain) == FALSE

\* normalModule.loaders.some((loader) => loader.loader === webpackLoaderPath)
hasLoader(chain) == \E i \in 1..Len(chain) : chain[i].loader = webpackLoaderPath

\* requests webpack hands over: the seven extensions, and names that are close
UserRequests ==
    { <<"a", ".">> \o ext : ext \in Extensions } \cup
    { <<"a", ".", "d", ".", "t", "s">>,
      <<"a", ".", "j", "s", "o", "n">>,
      <<"a", ".", "s", "c", "s", "s">>,
      <<"a", ".", "m", "j", "s">>,
      <<"a", ".", "j", "s", "?", "x">>,
      <<"a", ".", "j", "s", ".", "m", "a", "p">>,
      <<"a", ".", "h", "t", "m", "l">>,
      <<"a", "j", "s">>,
      <<"a">> }

\* entries the configuration's rules put in a chain: other loaders, and the
\* transform loader when a rule names it
ConfiguredLoaders ==
    { [loader |-> "babel-loader", ident |-> "none"],
      [loader |-> "css-loader", ident |-> "none"],
      [loader |-> webpackLoaderPath, ident |-> "none"] }

ConfiguredChains ==
    { ch \in {<<>>} \cup { <<x>> : x \in ConfiguredLoaders }
                    \cup { <<x, y>> : x \in ConfiguredLoaders, y \in ConfiguredLoaders } :
        Cardinality({ i \in 1..Len(ch) : ch[i].loader = webpackLoaderPath }) <= 1 }

ChainInit ==
    /\ userRequest \in UserRequests
    /\ loaders0 \in ConfiguredChains
    /\ loaders = loaders0
    /\ firings = 0
    /\ nodeEnv \in {"production", "development"}
    /\ IS_GALADRIEL_BUILD = (nodeEnv = "production")
    /\ host = <<"linux", "x64", "glibc">>
    /\ PluginAtRest
    /\ LoaderAtRest
    /\ ResolverAtRest
    /\ ArtifactAtRest

\* the beforeLoaders hook fires on the module, once per tap
processNormalModuleRequest ==
    /\ firings < MaxFirings
    /\ firings' = firings + 1
    /\ loaders' = IF shouldProcessFile(userRequest) /\ ~hasLoader(loaders)
                  THEN Append(loaders, GaladrielLoader)
                  ELSE loaders
    /\ UNCHANGED <<userRequest, loaders0>>
    /\ UNCHANGED <<loaderVars, pluginVars, resolverVars, artifactVars>>

ChainNext == processNormalModuleRequest

ChainSpec == ChainInit /\ [][ChainNext]_vars

PluginInit ==
    /\ nodeEnv \in {"production", "development"}
    /\ host \in Hosts
    /\ hasRunGaladrielBuild = FALSE
    /\ hasRemovedGaladrielDir = FALSE
    /\ beforeRunTaps = [c \in Compilers |-> 0]
    /\ doneTaps = [c \in Compilers |-> 0]
    /\ phase = [c \in Compilers |-> "idle"]
    /\ hpc = [c \in Compilers |-> "none"]
    /\ hookResult = [c \in Compilers |-> "none"]
    /\ fatal = [c \in Compilers |-> FALSE]
    /\ runs = 0
    /\ transformed = [c \in Compilers |-> FALSE]
    /\ compilationTaps = [c \in Compilers |-> 0]
    /\ applies = 0
    /\ installCount = 0
    /\ buildCount = 0
    /\ installOk = FALSE
    /\ buildOk = FALSE
    /\ doneFirings = 0
    /\ rmCount = 0
    /\ fs = [dir |-> FALSE, binary |-> FALSE, artifact |-> FALSE]
    /\ loaderModule = "unloaded"
    /\ fileReads = [artifact |-> 0, addr |-> 0]
    /\ installResult = [c \in Compilers |-> "none"]
    /\ downloadCount = 0
    /\ buildResult = [c \in Compilers |-> "none"]
    /\ buildEvents = [c \in Compilers |-> <<>>]
    /\ IS_GALADRIEL_BUILD = (nodeEnv = "production")
    /\ LoaderAtRest
    /\ ResolverAtRest
    /\ ChainAtRest
    /\ ArtifactAtRest

\* setupProductionHooks: if (!hasRunGaladrielBuild)
ShouldTapBeforeRun == ~hasRunGaladrielBuild

\* apply(compiler), by any plugin instance
Apply(c) ==
    /\ applies < MaxApplies
    /\ phase[c] = "idle"
    /\ applies' = applies + 1
    /\ compilationTaps' = [compilationTaps EXCEPT ![c] = @ + 1]
    /\ IF nodeEnv = "production"
       THEN /\ IF ShouldTapBeforeRun
               THEN /\ hasRunGaladrielBuild' = TRUE
                    /\ beforeRunTaps' = [beforeRunTaps EXCEPT ![c] = @ + 1]
               ELSE UNCHANGED <<hasRunGaladrielBuild, beforeRunTaps>>
            /\ doneTaps' = [doneTaps EXCEPT ![c] = @ + 1]
       ELSE UNCHANGED <<hasRunGaladrielBuild, beforeRunTaps, doneTaps>>
    /\ UNCHANGED <<nodeEnv, host, hasRemovedGaladrielDir, phase, hpc, hookResult, fatal,
                   runs, transformed, installCount, buildCount, installOk, buildOk,
                   doneFirings, rmCount, fs, loaderModule, fileReads, installResult,
                   downloadCount, buildResult, buildEvents>>
    /\ UNCHANGED outsidePlugin

\* handleBeforeRun's catch: the error is logged and the hook's promise resolves
Caught(c) ==
    /\ fatal' = [fatal EXCEPT ![c] = TRUE]
    /\ hookResult' = [hookResult EXCEPT ![c] = "resolved"]
    /\ hpc' = [hpc EXCEPT ![c] = "none"]
    /\ phase' = [phase EXCEPT ![c] = "compiling"]

PatchSupported_Any(p) == TRUE

\* installGaladrielCss: if (patch === null) throw
PatchSupported(p) == p # "null"

AfterInstall_SpawnAlways(outcome) == "spawn"

\* handleBeforeRun's try block: startGaladrielBuild follows the await of
\* installGaladrielCss; a rejection goes to the catch
AfterInstall(outcome) == IF outcome = "resolved" THEN "spawn" ELSE "catch"

\* the promise of installGaladrielCss settles and handleBeforeRun resumes:
\* it spawns the build subprocess, or lands in its catch
InstallSettles(c, outcome) ==
    /\ installResult' = [installResult EXCEPT ![c] = outcome]
    /\ buildEvents' = [buildEvents EXCEPT ![c] = <<>>]
    /\ IF AfterInstall(outcome) = "spawn"
       THEN /\ installOk' = (installOk \/ outcome = "resolved")
            /\ buildCount' = buildCount + 1
            /\ buildResult' = [buildResult EXCEPT ![c] = "pending"]
            /\ hpc' = [hpc EXCEPT ![c] = "building"]
            /\ phase' = [phase EXCEPT ![c] = "beforeRun"]
            /\ hookResult' = [hookResult EXCEPT ![c] = "pending"]
            /\ fatal' = [fatal EXCEPT ![c] = FALSE]
       ELSE /\ Caught(c)
            /\ buildResult' = [buildResult EXCEPT ![c] = "none"]
            /\ UNCHANGED <<installOk, buildCount>>

\* compiler.run(): the beforeRun hook fires; with a tap, handleBeforeRun runs
\* into installGaladrielCss, up to its await of the download
Run(c) ==
    /\ phase[c] = "idle"
    /\ compilationTaps[c] > 0
    /\ runs < MaxRuns
    /\ runs' = runs + 1
    /\ transformed' = [transformed EXCEPT ![c] = FALSE]
    /\ IF beforeRunTaps[c] = 0
       THEN /\ phase' = [phase EXCEPT ![c] = "compiling"]
            /\ hookResult' = [hookResult EXCEPT ![c] = "resolved"]
            /\ fatal' = [fatal EXCEPT ![c] = FALSE]
            /\ UNCHANGED <<hpc, installCount, fs, installResult, downloadCount,
                           buildResult, buildEvents, installOk, buildCount>>
       ELSE /\ installCount' = installCount + 1
            /\ IF ~PatchSupported(verifyOS(host[1], host[2], host[3]))
               THEN /\ InstallSettles(c, "rejected")
                    /\ UNCHANGED <<fs, downloadCount>>
               ELSE /\ fs' = [fs EXCEPT !.dir = TRUE, !.binary = TRUE]
                    /\ downloadCount' = downloadCount + 1
                    /\ installResult' = [installResult EXCEPT ![c] = "pending"]
                    /\ buildResult' = [buildResult EXCEPT ![c] = "none"]
                    /\ buildEvents' = [buildEvents EXCEPT ![c] = <<>>]
                    /\ hpc' = [hpc EXCEPT ![c] = "downloading"]
                    /\ phase' = [phase EXCEPT ![c] = "beforeRun"]
                    /\ hookResult' = [hookResult EXCEPT ![c] = "pending"]
                    /\ fatal' = [fatal EXCEPT ![c] = FALSE]
                    /\ UNCHANGED <<installOk, buildCount>>
    /\ UNCHANGED <<nodeEnv, host, hasRunGaladrielBuild, hasRemovedGaladrielDir, beforeRunTaps,
                   doneTaps, compilationTaps, applies, buildOk, doneFirings, rmCount,
                   loaderModule, fileReads>>
    /\ UNCHANGED outsidePlugin

DownloadOutcomes == {"200", "other_2xx", "error"}

\* axios.get settles: a 200 response is piped to the writer; a rejection
\* (timeout, no connection, status outside 2xx) or another status throws
Download(c, outcome) ==
    /\ hpc[c] = "downloading"
    /\ IF outcome = "200"
       THEN /\ hpc' = [hpc EXCEPT ![c] = "piping"]
            /\ UNCHANGED <<fatal, hookResult, phase, installResult, buildResult,
                           buildEvents, installOk, buildCount>>
       ELSE InstallSettles(c, "rejected")
    /\ UNCHANGED <<nodeEnv, host, hasRunGaladrielBuild, hasRemovedGaladrielDir, beforeRunTaps,
                   doneTaps, runs, transformed, compilationTaps, applies, installCount,
                   buildOk, doneFirings, rmCount, fs, loaderModule, fileReads,
                   downloadCount>>
    /\ UNCHANGED outsidePlugin

\* the write stream ends: "error" rejects; "finish" resolves if the binary
\* exists, and handleBeforeRun goes on to spawn the build
Writer(c, event) ==
    /\ hpc[c] = "piping"
    /\ InstallSettles(c, IF event = "finish" /\ fs.binary THEN "resolved" ELSE "rejected")
    /\ UNCHANGED <<nodeEnv, host, hasRunGaladrielBuild, hasRemovedGaladrielDir, beforeRunTaps,
                   doneTaps, runs, transformed, compilationTaps, applies, installCount,
                   buildOk, doneFirings, rmCount, fs, loaderModule, fileReads,
                   downloadCount>>
    /\ UNCHANGED outsidePlugin

\* the response stream fails during the transfer: pipe() unpipes the writer
\* and does not end it, and nothing listens to the response's "error";
\* neither "finish" nor "error" of the writer follows
ResponseError(c) ==
    /\ hpc[c] = "piping"
    /\ hpc' = [hpc EXCEPT ![c] = "stalled"]
    /\ UNCHANGED <<nodeEnv, host, hasRunGaladrielBuild, hasRemovedGaladrielDir, beforeRunTaps,
                   doneTaps, phase, hookResult, fatal, runs, transformed, compilationTaps,
                   applies, installCount, buildCount, installOk, buildOk, doneFirings,
                   rmCount, fs, loaderModule, fileReads, installResult, downloadCount,
                   buildResult, buildEvents>>
    /\ UNCHANGED outsidePlugin

\* the build subprocess writes .galadrielcss/galadrielcss.json
BuildWritesArtifact(c) ==
    /\ hpc[c] = "building"
    /\ fs.binary
    /\ hpc' = [hpc EXCEPT ![c] = "built"]
    /\ fs' = [fs EXCEPT !.dir = TRUE, !.artifact = TRUE]
    /\ UNCHANGED <<nodeEnv, host, hasRunGaladrielBuild, hasRemovedGaladrielDir, beforeRunTaps,
                   doneTaps, phase, hookResult, fatal, runs, transformed, compilationTaps,
                   applies, installCount, buildCount, installOk, buildOk, doneFirings,
                   rmCount, loaderModule, fileReads, installResult, downloadCount,
                   buildResult, buildEvents>>
    /\ UNCHANGED outsidePlugin

\* the codes a "close" event carries: 0, and one standing for every other
\* code and for null (ended by a signal)
ExitCodes == {0, 1}

BuildEndings == { <<"error">> } \cup { <<"close", code>> : code \in ExitCodes }

\* process.on("close"): code === 0 resolves, any other code rejects
CloseOutcome(code) == IF code = 0 THEN "resolved" ELSE "rejected"

\* process.on("error") rejects
EventOutcome(event) ==
    IF event[1] = "error" THEN "rejected" ELSE CloseOutcome(event[2])

Settle_Last(state, outcome) == outcome

\* resolve() and reject() of a promise: the first call settles it, a later
\* call does nothing
Settle(state, outcome) == IF state = "pending" THEN outcome ELSE state

\* the first event of the subprocess: the promise of startGaladrielBuild
\* settles and handleBeforeRun resumes; a build that ends with code 0 has
\* written its artifact
BuildEnds(c, event) ==
    /\ hpc[c] \in {"building", "built"}
    /\ event = <<"close", 0>> => hpc[c] = "built"
    /\ buildEvents' = [buildEvents EXCEPT ![c] = Append(@, event)]
    /\ LET result == Settle(buildResult[c], EventOutcome(event))
       IN  /\ buildResult' = [buildResult EXCEPT ![c] = result]
           /\ IF result = "resolved"
              THEN /\ buildOk' = TRUE
                   /\ fatal' = [fatal EXCEPT ![c] = FALSE]
                   /\ hookResult' = [hookResult EXCEPT ![c] = "resolved"]
                   /\ hpc' = [hpc EXCEPT ![c] = "none"]
                   /\ phase' = [phase EXCEPT ![c] = "compiling"]
              ELSE /\ Caught(c)
                   /\ UNCHANGED buildOk
    /\ UNCHANGED <<nodeEnv, host, hasRunGaladrielBuild, hasRemovedGaladrielDir, beforeRunTaps,
                   doneTaps, runs, transformed, compilationTaps, applies, installCount,
                   buildCount, installOk, doneFirings, rmCount, fs, loaderModule, fileReads,
                   installResult, downloadCount>>
    /\ UNCHANGED outsidePlugin

\* "close" comes after "error" for the same subprocess: the close handler
\* runs on a promise that is settled already
BuildClosesAfterError(c, code) ==
    /\ buildEvents[c] = << <<"error">> >>
    /\ buildEvents' = [buildEvents EXCEPT ![c] = Append(@, <<"close", code>>)]
    /\ buildResult' = [buildResult EXCEPT ![c] = Settle(@, CloseOutcome(code))]
    /\ UNCHANGED <<nodeEnv, host, hasRunGaladrielBuild, hasRemovedGaladrielDir, beforeRunTaps,
                   doneTaps, phase, hpc, hookResult, fatal, runs, transformed,
                   compilationTaps, applies, installCount, buildCount, installOk, buildOk,
                   doneFirings, rmCount, fs, loaderModule, fileReads, installResult,
                   downloadCount>>
    /\ UNCHANGED outsidePlugin

\* webpack hands a module to the loader; the first time, the loader module is
\* evaluated: in production it reads the artifact file, and throws without it
Transform(c) ==
    /\ phase[c] = "compiling"
    /\ compilationTaps[c] > 0
    /\ ~transformed[c]
    /\ LET r == LoadLoader(loaderModule, nodeEnv, fs.artifact, artifactDoc.parses)
       IN  /\ loaderModule' = IF r.ok THEN "loaded" ELSE "failed"
           /\ transformed' = [transformed EXCEPT ![c] = r.ok]
           /\ fileReads' = [artifact |-> fileReads.artifact + r.artifact,
                            addr |-> fileReads.addr + r.addr]
    /\ loaderModule' # loaderModule \/ transformed'[c]
    /\ UNCHANGED <<nodeEnv, host, hasRunGaladrielBuild, hasRemovedGaladrielDir, beforeRunTaps,
                   doneTaps, phase, hpc, hookResult, fatal, runs, compilationTaps, applies,
                   installCount, buildCount, installOk, buildOk, doneFirings, rmCount, fs,
                   installResult, downloadCount, buildResult, buildEvents>>
    /\ UNCHANGED outsidePlugin

ShouldCleanup_Always(removed) == TRUE

\* cleanupAfterBuild: if (!hasRemovedGaladrielDir)
ShouldCleanup(removed) == ~removed

\* cleanupAfterBuild, n times in a row, on st = [removed, fs, rm]
RECURSIVE CleanupTimes(_, _)
CleanupTimes(n, st) ==
    IF n = 0 THEN st
    ELSE CleanupTimes(n - 1,
            IF ShouldCleanup(st.removed)
            THEN IF st.fs.dir
                 THEN [removed |-> TRUE, rm |-> st.rm + 1,
                       fs |-> [dir |-> FALSE, binary |-> FALSE, artifact |-> FALSE]]
                 ELSE [st EXCEPT !.removed = TRUE]
            ELSE st)

\* the compilation ends and the done hook fires: every tap runs cleanupAfterBuild
Done(c) ==
    /\ phase[c] = "compiling"
    /\ phase' = [phase EXCEPT ![c] = "idle"]
    /\ doneFirings' = doneFirings + doneTaps[c]
    /\ LET st == CleanupTimes(doneTaps[c],
                    [removed |-> hasRemovedGaladrielDir, fs |-> fs, rm |-> rmCount])
       IN  /\ hasRemovedGaladrielDir' = st.removed
           /\ fs' = st.fs
           /\ rmCount' = st.rm
    /\ UNCHANGED <<nodeEnv, host, hasRunGaladrielBuild, beforeRunTaps, doneTaps, hpc,
                   hookResult, fatal, runs, transformed, compilationTaps, applies,
                   installCount, buildCount, installOk, buildOk, loaderModule, fileReads,
                   installResult, downloadCount, buildResult, buildEvents>>
    /\ UNCHANGED outsidePlugin

PluginNext ==
    \/ \E c \in Compilers : Apply(c)
    \/ \E c \in Compilers : Run(c)
    \/ \E c \in Compilers, o \in DownloadOutcomes : Download(c, o)
    \/ \E c \in Compilers, e \in {"finish", "error"} : Writer(c, e)
    \/ \E c \in Compilers : ResponseError(c)
    \/ \E c \in Compilers : BuildWritesArtifact(c)
    \/ \E c \in Compilers, e \in BuildEndings : BuildEnds(c, e)
    \/ \E c \in Compilers, code \in ExitCodes : BuildClosesAfterError(c, code)
    \/ \E c \in Compilers : Transform(c)
    \/ \E c \in Compilers : Done(c)

PluginSpec == PluginInit /\ [][PluginNext]_vars

Spec == PluginSpec

(***************************************************************************)
(* What the claims about the plugin speak of                               *)
(***************************************************************************)
\* C1: in a production process the install step runs once and the build
\* subprocess is spawned once, however often apply() is called and beforeRun
\* fires; a later trigger is a no-op.
C1_InstallBuildOnce ==
    nodeEnv = "production" => (installCount <= 1 /\ buildCount <= 1)

\* C2: in a production build no compiler has a source file transformed, and
\* the artifact is not loaded, before an install and a build have both
\* completed successfully.
C2_BuildBeforeTransform ==
    nodeEnv = "production" =>
        \A c \in Compilers :
            (transformed[c] \/ loaderModule = "loaded") => (installOk /\ buildOk)

\* C3: a fatal failure of the pre-build step makes the beforeRun hook's
\* promise reject, and the compilation does not go on.
C3_FatalRejects ==
    nodeEnv = "production" =>
        \A c \in Compilers :
            fatal[c] => (hookResult[c] = "rejected" /\ phase[c] # "compiling")

\* C10: the temporary directory is removed at most once in a process, and a
\* cleanup trigger that comes after the first one changes nothing.
C10_CleanupOnce ==
    [][ /\ rmCount' <= 1
        /\ (hasRemovedGaladrielDir /\ doneFirings' # doneFirings) =>
              (fs' = fs /\ rmCount' = rmCount /\ hasRemovedGaladrielDir') ]_vars

C10_Witness ==
    /\ doneFirings >= 3
    /\ rmCount = 1
    /\ fs.dir
    /\ \A c \in Compilers : phase[c] = "idle"

\* every compiler the plugin was applied to has run and had its done hook
\* fired, and no install or build is in progress
BuildFinished ==
    /\ doneFirings > 0
    /\ \A c \in Compilers :
          /\ phase[c] = "idle"
          /\ hpc[c] = "none"
          /\ compilationTaps[c] > 0 => hookResult[c] # "none"

\* C11: once a production build has finished, the temporary working
\* directory (binary and artifact with it) no longer exists, whatever the
\* outcome of install and build, and also after a second run in the process.
C11_TempDirGone ==
    (nodeEnv = "production" /\ BuildFinished) =>
        (~fs.dir /\ ~fs.binary /\ ~fs.artifact)

(***************************************************************************)
(* What the claims about the platform resolver speak of                    *)
(***************************************************************************)
Unsupported == "null"

\* the table of the claim: five host classes, every other pair unsupported
ClaimedTarget(h) ==
    IF h[1] = "darwin" /\ h[2] = "arm64" THEN "aarch64-apple-darwin"
    ELSE IF h[1] = "darwin" /\ h[2] = "x64" THEN "x86_64-apple-darwin"
    ELSE IF h[1] = "win32" /\ h[2] = "x64" THEN "x86_64-pc-windows-msvc"
    ELSE IF h[1] = "linux" /\ h[2] = "x64" /\ h[3] = "musl" THEN "x86_64-unknown-linux-musl"
    ELSE IF h[1] = "linux" /\ h[2] = "x64" THEN "x86_64-unknown-linux-gnu"
    ELSE Unsupported

\* C12 (as stated): the resolver maps (darwin, arm64), (darwin, x64),
\* (win32, x64), (linux, x64) with a musl probe and (linux, x64) with any
\* other probe to their five targets, and every other (os, arch) pair to
\* unsupported.
C12_ResolverTable ==
    patch # "unset" => patch = ClaimedTarget(host)

\* C12 (amended): as stated, except that darwin with any architecture other
\* than x64 (not only arm64) maps to aarch64-apple-darwin.
C12_ResolverTableDarwin ==
    patch # "unset" =>
        patch = IF host[1] = "darwin" THEN (IF host[2] = "x64" THEN "x86_64-apple-darwin"
                                  ELSE "aarch64-apple-darwin")
                ELSE ClaimedTarget(host)

C12_Witness ==
    /\ host = <<"darwin", "ia32", "failed">>
    /\ patch = "aarch64-apple-darwin"

(***************************************************************************)
(* What the claims about the two modes speak of                            *)
(***************************************************************************)
\* development: no install, build, cleanup or read of the artifact file
DevelopmentTouchesNoBuild ==
    /\ installCount = 0
    /\ buildCount = 0
    /\ doneFirings = 0
    /\ rmCount = 0
    /\ fileReads.artifact = 0
    /\ GALADRIEL_BUILD_DATA = NullData

\* development: a finished transform has sent one request for every token
EveryTokenRequested ==
    (source.isString /\ lpc = "done" /\ ~cb.err) =>
        Len(TokenRequests) = Len(Matches)

\* production: no request to the development server, no read of its address file
ProductionTouchesNoServer ==
    /\ requests = <<>>
    /\ fileReads.addr = 0

\* C13: the two modes exclude each other for the whole process: in
\* development nothing of install, build, cleanup or artifact reading
\* happens and every token is resolved by a request to the development
\* server; in production no such request is issued and the address file of
\* the development server is not read.
C13_ModesExclusive ==
    /\ nodeEnv = "development" => (DevelopmentTouchesNoBuild /\ EveryTokenRequested)
    /\ nodeEnv = "production" => ProductionTouchesNoServer

(***************************************************************************)
(* What the claims about loader registration speak of                      *)
(***************************************************************************)
\* the characters after the last "." of a name; the whole name without one
RECURSIVE ExtensionOf(_)
ExtensionOf(name) ==
    IF \A i \in 1..Len(name) : name[i] # "." THEN name
    ELSE ExtensionOf(Tail(name))

HasListedExtension == "." \in { userRequest[i] : i \in 1..Len(userRequest) }
                      /\ ExtensionOf(userRequest) \in Extensions

\* how often the transform loader is in a chain
Occurrences(chain) ==
    Cardinality({ i \in 1..Len(chain) : chain[i].loader = webpackLoaderPath })

\* C14: however often the registration hook fires on a module, a module with
\* one of the seven extensions has the transform loader in its chain exactly
\* once, added as the last entry when the chain did not have it, with the
\* entries that were there unchanged; a module with another extension keeps
\* its chain.
C14_RegisteredOnce ==
    /\ (HasListedExtension /\ firings > 0) =>
          /\ Occurrences(loaders) = 1
          /\ loaders = IF Occurrences(loaders0) = 0
                       THEN loaders0 \o <<GaladrielLoader>>
                       ELSE loaders0
    /\ ~HasListedExtension => loaders = loaders0

C14_Witness ==
    /\ HasListedExtension
    /\ firings = MaxFirings
    /\ Len(loaders0) = 2
    /\ loaders = loaders0 \o <<GaladrielLoader>>

(***************************************************************************)
(* What the claims about install, build and cleanup speak of               *)
(***************************************************************************)
\* C15: the build subprocess is spawned only after the install step has
\* resolved; where the install step rejects (or has not settled), the
\* handler has spawned no build.
C15_BuildAfterInstall ==
    /\ buildCount > 0 => installOk
    /\ \A c \in Compilers :
          (buildResult[c] # "none" \/ hpc[c] \in {"building", "built"}) =>
              installResult[c] = "resolved"

C15_Witness ==
    /\ installCount = 2
    /\ buildCount = 1
    /\ \E c \in Compilers : installResult[c] = "rejected" /\ phase[c] = "compiling"

\* a step that can settle the install of compiler c is still to come
InstallProgress(c) ==
    \/ \E o \in DownloadOutcomes : Download(c, o)
    \/ \E e \in {"finish", "error"} : Writer(c, e)

\* C16: the install step settles for every outcome of the download
\* (unsupported platform, timeout, non-success status, error of the response
\* stream during the transfer, error of the write stream, successful finish):
\* it is never left pending with nothing to settle it, and it resolves only
\* for a written, existing binary.
C16_InstallSettles ==
    \A c \in Compilers :
        /\ installResult[c] = "pending" => ENABLED InstallProgress(c)
        /\ installResult[c] = "resolved" => installOk

\* C17: on a host the resolver reports as unsupported the install step
\* fails with an error, and it creates no directory, sends no download
\* request and creates no binary file.
C17_UnsupportedTouchesNothing ==
    (verifyOS(host[1], host[2], host[3]) = Unsupported) =>
        /\ ~fs.dir
        /\ ~fs.binary
        /\ downloadCount = 0
        /\ \A c \in Compilers : installResult[c] \in {"none", "rejected"}
        /\ installCount > 0 => \E c \in Compilers : installResult[c] = "rejected"

C17_Witness ==
    /\ verifyOS(host[1], host[2], host[3]) = Unsupported
    /\ installCount = 2
    /\ \E c \in Compilers : installResult[c] = "rejected" /\ fatal[c]

\* what the events of a subprocess make of the build step's promise
Expected(events) ==
    IF events = <<>> THEN {"none", "pending"}
    ELSE IF events = << <<"close", 0>> >> THEN {"resolved"}
    ELSE {"rejected"}

\* C18: the build step's promise settles once, when the subprocess ends: it
\* resolves exactly when the subprocess closes with code 0 and no error
\* event came, it rejects on another code and on an error event, and an
\* event that comes after the first one (close after error) leaves a
\* rejection a rejection.
C18_BuildSettlesOnce ==
    [][ \A c \in Compilers :
          /\ buildResult'[c] \in Expected(buildEvents'[c])
          /\ (buildResult[c] \in {"resolved", "rejected"} /\ buildEvents'[c] # <<>>) =>
                buildResult'[c] = buildResult[c] ]_vars

C18_Witness ==
    \E c \in Compilers :
        /\ buildEvents[c] = << <<"error">>, <<"close", 0>> >>
        /\ buildResult[c] = "rejected"
        /\ fatal[c]

\* C20: cleanup does not remove the temporary directory while an install or
\* a build is in progress, nor while a compiler that needs the artifact is
\* still before or in its compilation: a done hook of one compiler leaves
\* the directory to the others.
C20_CleanupWaits ==
    [][ rmCount' > rmCount =>
            \A c \in Compilers : hpc[c] = "none" /\ phase'[c] = "idle" ]_vars

(***************************************************************************)
(* What the claims about the order of responses speak of                   *)
(***************************************************************************)
SomePending == \E i \in 1..Len(requests) : requests[i].status = "pending"

\* C19: live, the token requests of a text are issued together, before any
\* response is consumed; no text is delivered while a request is pending;
\* and the delivered text is made of the source and of each request's own
\* response, whatever the order in which the responses arrived.
C19_OrderIndependent ==
    (~IS_GALADRIEL_BUILD /\ source.isString) =>
        /\ Len(TokenRequests) > 0 => Len(TokenRequests) = Len(Matches)
        /\ (cb.calls > 0 /\ ~cb.err) => ~SomePending
        /\ (SomePending /\ ~SomeFailed) => cb.calls = 0
        /\ (lpc = "done" /\ ~cb.err /\ Len(TokenRequests) > 0) =>
              cb.value = Str(Rebuild(source.val, Matches,
                                     [k \in 1..Len(Matches) |-> requests[k].data], 1, 1))

C19_Witness ==
    /\ ~IS_GALADRIEL_BUILD
    /\ lpc = "done" /\ cb.calls = 1 /\ ~cb.err
    /\ Len(requests) = 2
    /\ requests[1].at = 2 /\ requests[2].at = 1
    /\ requests[1].data # requests[2].data

(***************************************************************************)
(* What the claims about the shape of tokens speak of                      *)
(***************************************************************************)
Malformed == { k \in 1..Len(Matches) : ~WellFormed(Matches[k]) }

\* C21: every token the grammar extracts has the MarkupToken shape (class
\* without a sub-name, layout and module with one): live, every token request
\* is the request of a well-formed token, with its path complete;
\* precompiled, a text whose matches are all malformed (@class:a::b,
\* @layout:a) has nothing looked up and comes out as written.
C21_OnlyWellFormed ==
    (source.isString /\ lpc # "start") =>
        /\ \A i \in 1..Len(requests) :
              requests[i].url # FETCH_CSS =>
                  /\ i <= Len(Matches)
                  /\ WellFormed(Matches[i])
                  /\ requests[i].url = TokenPath(Matches[i])
        /\ (IS_GALADRIEL_BUILD /\ ~HasDirective /\ Malformed = 1..Len(Matches)) =>
              (~cb.err /\ cb.value = source)

(***************************************************************************)
(* What the claims about repeated, nested and adjacent tokens speak of     *)
(***************************************************************************)
\* the value the k-th match resolves to: live, the response to its own
\* request; precompiled, what the lookup of that one token gives
ResolvedValue(k) ==
    IF IS_GALADRIEL_BUILD THEN Replacer(Matches[k], GALADRIEL_BUILD_DATA).val
    ELSE IF k <= Len(TokenRequests) THEN TokenRequests[k].data
    ELSE Matches[k].text

\* the stylesheet the directive stands for
Stylesheet ==
    IF IS_GALADRIEL_BUILD
    THEN (IF GALADRIEL_BUILD_DATA.css.def /\ GALADRIEL_BUILD_DATA.css.val # <<>>
          THEN GALADRIEL_BUILD_DATA.css.val ELSE DIRECTIVE)
    ELSE requests[1].data

\* C22: in a text with several tokens (the same token twice, one token a
\* prefix of another, tokens side by side) every occurrence is replaced, at
\* its own place, by its own resolved value, and nothing else of the text
\* changes but the directive, which becomes the stylesheet.
C22_EachOccurrenceInPlace ==
    (lpc = "done" /\ ~cb.err /\ source.isString /\ Len(Matches) >= 2) =>
        LET body == Rebuild(source.val, Matches,
                            [k \in 1..Len(Matches) |-> ResolvedValue(k)], 1, 1)
        IN  /\ ~IS_GALADRIEL_BUILD => Len(TokenRequests) = Len(Matches)
            /\ cb.value = Str(IF HasDirective
                              THEN ReplaceFirst(body, DIRECTIVE, Stylesheet)
                              ELSE body)


C24_CallbackOnceWithError ==
    /\ cb.calls <= 1
    /\ lpc = "done" <=> cb.calls = 1
    /\ cb.calls = 1 =>
          /\ cb.err <=> cb.carries # "nothing"
          /\ cb.err => cb.value = NoValue
          /\ cb.err =>
                cb.carries = IF ~IS_GALADRIEL_BUILD /\ Thrown(requests) = "value"
                             THEN "generic Error" ELSE "Error"

C24_Witness ==
    /\ cb.calls = 1
    /\ cb.carries = "generic Error"
    /\ Len(requests) = 2
    /\ requests[2].status = "rejected_value"
    /\ requests[1].status = "conn_error"
    /\ requests[1].at = 2


(***************************************************************************)
(* The installer over a binary that is already there                       *)
(***************************************************************************)
\* C25: when the binary file is present at the install path, a call of
\* installGaladrielCss issues no download and leaves the file as it is
C25_InstallSkipsPresentBinary ==
    [][(fs.binary /\ installCount' = installCount + 1) =>
          (downloadCount' = downloadCount /\ hpc' = hpc)]_vars

====
